---- MODULE Spec2Model ----
(***************************************************************************)
(* A model of the CI benchmark aggregator: generate_visualizations.py      *)
(* (load_failure_categories, parse_data, generate_summary_data,            *)
(* generate_dashboard_data, main) and the local file server serve.py.      *)
(*                                                                         *)
(* Strings the code compares or splits (file names, repository keys,      *)
(* commit hashes) are sequences of one-character strings, so that split,   *)
(* int(), replace and the code-point order of sorted() are computed.       *)
(* A Python dict is a sequence of [key, value] pairs in insertion order.   *)
(***************************************************************************)
EXTENDS Integers, Sequences, FiniteSets, TLC

VARIABLES
    files,              \* data/<org>/<repo>/<platform>/ : the platform directories and their *.json files
    overrideFile,       \* incorrect.yaml
    outDir,             \* whether public/ exists
    outFile,            \* public/dashboard_data.json : [exists, content]
    pc,                 \* position of the generator process in main
    genuine_failures,   \* parse_data's local, from load_failure_categories
    early_failures,     \* parse_data's local, from load_failure_categories
    warned,             \* whether "Warning: Could not load incorrect.yaml" was printed
    visited,            \* the platform directories the loops of parse_data have been through
    results,            \* parse_data's results dict: repo_key -> platform -> list of records
    skipped,            \* the files reported by "Error parsing ..."
    dashboard_data,     \* main's local, from generate_dashboard_data
    run,                \* how many times main has been started
    fileAtStart,        \* public/dashboard_data.json as it was when this run of main started
    servePc,            \* position of the serve.py process
    serveDir,           \* the directory serve.py serves (its cwd after os.chdir)
    servePort,          \* the port serve.py bound
    viz                 \* what serve.py found of visualizations/

vars == <<files, overrideFile, outDir, outFile, pc, genuine_failures, early_failures,
          warned, visited, results, skipped, dashboard_data, run, fileAtStart,
          servePc, serveDir, servePort, viz>>

----------------------------------------------------------------------------
(* Bounds of the model *)

\* Files per platform directory, in the specification of the parser.
MaxFiles == 2
\* Entries per list of incorrect.yaml, in the specification of the loader.
MaxEntries == 2
\* Runs of main in one behaviour.
MaxRuns == 2

----------------------------------------------------------------------------
(* Text: code points, comparison, split, int(), replace *)

\* The code point of a character, as str comparison uses it.
CharCode(c) ==
    CASE c = "-" -> 45 [] c = "." -> 46 [] c = "/" -> 47
      [] c = "0" -> 48 [] c = "1" -> 49 [] c = "2" -> 50 [] c = "7" -> 55
      [] c = "_" -> 95 [] c = "a" -> 97 [] c = "b" -> 98 [] c = "h" -> 104
      [] c = "j" -> 106 [] c = "n" -> 110 [] c = "o" -> 111 [] c = "p" -> 112
      [] c = "s" -> 115 [] c = "x" -> 120

\* s < t for two str values: the first differing code point decides, a proper
\* prefix is smaller.
RECURSIVE LexLess(_, _)
LexLess(s, t) ==
    IF t = <<>> THEN FALSE
    ELSE IF s = <<>> THEN TRUE
    ELSE IF Head(s) = Head(t) THEN LexLess(Tail(s), Tail(t))
    ELSE CharCode(Head(s)) < CharCode(Head(t))

\* The extension every globbed file name ends with.
JsonExt == <<".", "j", "s", "o", "n">>

\* The name of a file of a platform directory: its stem and ".json".
FileName(f) == f.stem \o JsonExt

\* The position of the first c in s, or 0.
RECURSIVE IndexOf(_, _, _)
IndexOf(s, c, i) ==
    IF i > Len(s) THEN 0
    ELSE IF s[i] = c THEN i
    ELSE IndexOf(s, c, i + 1)

\* filename.split('_', 1): one part without a separator, else two.
SplitFirst(name) ==
    LET i == IndexOf(name, "_", 1)
    IN  IF i = 0 THEN <<name>>
        ELSE <<SubSeq(name, 1, i - 1), SubSeq(name, i + 1, Len(name))>>

IsDigit(c) == c \in {"0", "1", "2", "7"}

DigitValue(c) == CharCode(c) - 48

\* Whether int(s) returns: an optional sign, then one or more digits.
\* (Otherwise it raises ValueError.)
IntParses(s) ==
    LET d == IF s # <<>> /\ Head(s) = "-" THEN Tail(s) ELSE s
    IN  d # <<>> /\ \A i \in DOMAIN d : IsDigit(d[i])

RECURSIVE DigitsValue(_, _)
DigitsValue(d, acc) ==
    IF d = <<>> THEN acc ELSE DigitsValue(Tail(d), 10 * acc + DigitValue(Head(d)))

\* int(s), where IntParses(s).
IntValue(s) ==
    IF Head(s) = "-" THEN 0 - DigitsValue(Tail(s), 0) ELSE DigitsValue(s, 0)

\* s.replace('.json', ''): every occurrence, left to right.
RECURSIVE RemoveJsonExt(_)
RemoveJsonExt(s) ==
    IF s = <<>> THEN <<>>
    ELSE IF Len(s) >= Len(JsonExt) /\ SubSeq(s, 1, Len(JsonExt)) = JsonExt
         THEN RemoveJsonExt(SubSeq(s, Len(JsonExt) + 1, Len(s)))
    ELSE <<Head(s)>> \o RemoveJsonExt(Tail(s))

----------------------------------------------------------------------------
(* Python dicts, in insertion order *)

DictKeys(d) == {d[i].key : i \in DOMAIN d}

DictGet(d, k) == d[CHOOSE i \in DOMAIN d : d[i].key = k].value

\* d[k] = v: a new key goes last, an old key keeps its place.
DictSet(d, k, v) ==
    IF k \in DictKeys(d)
    THEN [i \in DOMAIN d |-> IF d[i].key = k THEN [key |-> k, value |-> v] ELSE d[i]]
    ELSE Append(d, [key |-> k, value |-> v])

----------------------------------------------------------------------------
(* load_failure_categories *)

\* The tuples one well-formed entry adds.
EntryTuples(entry) ==
    {<<entry.repo, entry.platform, entry.commits[i]>> : i \in DOMAIN entry.commits}

\* One "for entry in data.get(name, [])" loop: the tuples added until the
\* first entry that lacks a key raises, and whether one did.
RECURSIVE LoadEntries(_, _)
LoadEntries(entries, acc) ==
    IF entries = <<>> THEN [tuples |-> acc, raised |-> FALSE]
    ELSE IF ~Head(entries).wellFormed THEN [tuples |-> acc, raised |-> TRUE]
    ELSE LoadEntries(Tail(entries), acc \union EntryTuples(Head(entries)))

\* load_failure_categories(): the two sets it returns and whether it warned.
\* The sets are filled in place, so what was added before an exception stays.
LoadFailureCategories(file) ==
    IF ~file.exists
    THEN [genuine |-> {}, early |-> {}, warned |-> FALSE]
    ELSE IF ~file.yamlLoads
    THEN [genuine |-> {}, early |-> {}, warned |-> TRUE]
    ELSE LET g == LoadEntries(file.genuine_failures, {})
             e == LoadEntries(file.early_fail, {})
         IN  IF g.raised
             THEN [genuine |-> g.tuples, early |-> {}, warned |-> TRUE]
             ELSE [genuine |-> g.tuples, early |-> e.tuples, warned |-> e.raised]

----------------------------------------------------------------------------
(* parse_data: one file *)

\* time / (1000 * 60)
MsPerMinute == 60000

\* A field the JSON object does not have.
NoField == "<absent>"

\* data.get('time', 0) / (1000 * 60). The model's durations are whole
\* minutes, on which the float division is exact.
TimeMinutes(body) ==
    IF body.time.tag = "absent" THEN 0 ELSE body.time.ms \div MsPerMinute

\* The chain with its first two tests in the other order.
CorrectedStatusEarlyFirst(key, original_status, genuine, early) ==
    IF key \in early THEN "early_fail"
    ELSE IF key \in genuine THEN "failure"
    ELSE IF original_status = "timed_out" THEN "timed_out"
    ELSE "success"

\* The if/elif chain that sets corrected_status.
CorrectedStatus(key, original_status, genuine, early) ==
    IF key \in genuine THEN "failure"
    ELSE IF key \in early THEN "early_fail"
    ELSE IF original_status = "timed_out" THEN "timed_out"
    ELSE "success"

\* The body of the try block for one file: a record appended ("record"), an
\* exception the except clause catches ("skip": json.JSONDecodeError from
\* json.load, ValueError from int), or one it does not ("crash":
\* AttributeError from data.get on a value that is no object, TypeError from
\* dividing a time that is no number). The statements run in the code's order.
ParseFile(f, repo_key, platform, genuine, early) ==
    LET parts == SplitFirst(FileName(f))
        commit_hash == IF Len(parts) > 1 THEN RemoveJsonExt(parts[2])
                       ELSE <<"u", "n", "k", "n", "o", "w", "n">>
        original_status == IF f.body.status = NoField THEN "unknown" ELSE f.body.status
    IN  IF f.body.kind = "invalid" THEN [outcome |-> "skip"]
        ELSE IF ~IntParses(parts[1]) THEN [outcome |-> "skip"]
        ELSE IF f.body.kind # "object" THEN [outcome |-> "crash"]
        ELSE IF f.body.time.tag = "str" THEN [outcome |-> "crash"]
        ELSE [outcome |-> "record",
              record |-> [commit_index |-> IntValue(parts[1]),
                          commit_hash |-> commit_hash,
                          time_minutes |-> TimeMinutes(f.body),
                          branch_name |-> IF f.body.branchName = NoField
                                          THEN "main" ELSE f.body.branchName,
                          status |-> CorrectedStatus(<<repo_key, platform, commit_hash>>,
                                                     original_status, genuine, early)]]

----------------------------------------------------------------------------
(* parse_data: one platform directory *)

\* f"{org_dir.name}/{repo_dir.name}"
RepoKey(d) == d[1] \o <<"/">> \o d[2]

\* sorted(platform_dir.glob("*.json")): ascending by file name. The names of
\* one directory are distinct.
RECURSIVE SortedGlob(_)
SortedGlob(S) ==
    IF S = {} THEN <<>>
    ELSE LET m == CHOOSE f \in S :
                    \A g \in S \ {f} : LexLess(FileName(f), FileName(g))
         IN  <<m>> \o SortedGlob(S \ {m})

\* The loop with "break" for "continue" in its except clause.
RECURSIVE ParseFilesBreak(_, _, _, _, _, _, _)
ParseFilesBreak(json_files, repo_key, platform, genuine, early, recs, skips) ==
    IF json_files = <<>>
    THEN [crashed |-> FALSE, records |-> recs, skipped |-> skips]
    ELSE LET r == ParseFile(Head(json_files), repo_key, platform, genuine, early)
         IN  CASE r.outcome = "crash" ->
                    [crashed |-> TRUE, records |-> recs, skipped |-> skips]
               [] r.outcome = "skip" ->
                    [crashed |-> FALSE, records |-> recs,
                     skipped |-> skips \union {FileName(Head(json_files))}]
               [] r.outcome = "record" ->
                    ParseFilesBreak(Tail(json_files), repo_key, platform, genuine, early,
                                    Append(recs, r.record), skips)

\* The "for json_file in json_files" loop: the records appended, the files
\* skipped, and whether an exception left the loop (and parse_data, and main).
RECURSIVE ParseFiles(_, _, _, _, _, _, _)
ParseFiles(json_files, repo_key, platform, genuine, early, recs, skips) ==
    IF json_files = <<>>
    THEN [crashed |-> FALSE, records |-> recs, skipped |-> skips]
    ELSE LET r == ParseFile(Head(json_files), repo_key, platform, genuine, early)
         IN  CASE r.outcome = "crash" ->
                    [crashed |-> TRUE, records |-> recs, skipped |-> skips]
               [] r.outcome = "skip" ->
                    ParseFiles(Tail(json_files), repo_key, platform, genuine, early,
                               recs, skips \union {FileName(Head(json_files))})
               [] r.outcome = "record" ->
                    ParseFiles(Tail(json_files), repo_key, platform, genuine, early,
                               Append(recs, r.record), skips)

\* x put into a list sorted by commit_index, behind the records whose index
\* is not larger.
RECURSIVE InsertByIndex(_, _)
InsertByIndex(sorted, x) ==
    IF sorted = <<>> THEN <<x>>
    ELSE IF Head(sorted).commit_index <= x.commit_index
         THEN <<Head(sorted)>> \o InsertByIndex(Tail(sorted), x)
    ELSE <<x>> \o sorted

\* The list left in the order the files were read in.
NoSort(commits) == commits

\* list.sort(key=lambda x: x['commit_index']): ascending and stable.
RECURSIVE SortByCommitIndex(_)
SortByCommitIndex(commits) ==
    IF commits = <<>> THEN <<>>
    ELSE InsertByIndex(SortByCommitIndex(SubSeq(commits, 1, Len(commits) - 1)),
                       commits[Len(commits)])

\* results[repo_key][platform_name] after the directory's loop and sort. Both
\* levels are defaultdicts: the keys appear even when no file gave a record.
\* The result is a function of what is passed in.
AddPlatform(res, repo_key, platform, recs) ==
    LET repo_data == IF repo_key \in DictKeys(res) THEN DictGet(res, repo_key) ELSE <<>>
        old == IF platform \in DictKeys(repo_data) THEN DictGet(repo_data, platform)
               ELSE <<>>
    IN  DictSet(res, repo_key,
                DictSet(repo_data, platform, SortByCommitIndex(old \o recs)))

----------------------------------------------------------------------------
(* generate_summary_data, generate_dashboard_data *)

GetPlatformColor(platform) ==
    CASE platform = "garnix" -> "#4CAF50"
      [] platform = "github-actions-parallel" -> "#2196F3"
      [] platform = "github-actions-serial" -> "#FF9800"
      [] platform = "github-actions-cachix-parallel" -> "#9C27B0"
      [] platform = "github-actions-cachix-serial" -> "#F44336"
      [] OTHER -> "#607D8B"

\* One point of a chart series.
Point(commit) ==
    [x |-> commit.commit_index, y |-> commit.time_minutes,
     commit_hash |-> commit.commit_hash, branch_name |-> commit.branch_name,
     status |-> commit.status]

\* One entry of summary_detailed_data[platform][repo_name].
SummaryEntry(commit) ==
    [commit_index |-> commit.commit_index, time_minutes |-> commit.time_minutes,
     status |-> commit.status]

\* The dataset of one platform of one repository. (The constant chart
\* options fill, tension, pointRadius, pointHoverRadius are left out.)
Dataset(item) ==
    [label |-> item.key, data |-> [i \in DOMAIN item.value |-> Point(item.value[i])],
     borderColor |-> GetPlatformColor(item.key)]

HasCommits(item) == item.value # <<>>

\* The inner loop of generate_dashboard_data: one dataset per platform with
\* commits, in the order of repo_data.items().
Datasets(repo_data) ==
    LET with_commits == SelectSeq(repo_data, HasCommits)
    IN  [i \in DOMAIN with_commits |-> Dataset(with_commits[i])]

\* An item put into a list of items sorted by key.
RECURSIVE InsertByKey(_, _)
InsertByKey(sorted, x) ==
    IF sorted = <<>> THEN <<x>>
    ELSE IF LexLess(x.key, Head(sorted).key) THEN <<x>> \o sorted
    ELSE <<Head(sorted)>> \o InsertByKey(Tail(sorted), x)

\* all_data.items() as it is, in the order parse_data met the repositories.
UnsortedItems(d) == d

\* sorted(all_data.items()): ascending by repository key (the keys of a dict
\* are distinct, so the values are never compared).
RECURSIVE SortedItems(_)
SortedItems(d) ==
    IF d = <<>> THEN <<>>
    ELSE InsertByKey(SortedItems(SubSeq(d, 1, Len(d) - 1)), d[Len(d)])

\* summary_detailed_data[platform] assigned anew for every repository, which
\* drops the repositories seen before.
AddSummaryOverwrite(summary, platform, repo_name, commits) ==
    IF commits = <<>> THEN summary
    ELSE DictSet(summary, platform,
                 <<[key |-> repo_name,
                    value |-> [i \in DOMAIN commits |-> SummaryEntry(commits[i])]]>>)

\* summary_detailed_data[platform][repo_name] gets the entries of commits,
\* when there are any; both levels are defaultdicts.
AddSummary(summary, platform, repo_name, commits) ==
    IF commits = <<>> THEN summary
    ELSE LET by_repo == IF platform \in DictKeys(summary)
                        THEN DictGet(summary, platform) ELSE <<>>
             old == IF repo_name \in DictKeys(by_repo)
                    THEN DictGet(by_repo, repo_name) ELSE <<>>
         IN  DictSet(summary, platform,
                     DictSet(by_repo, repo_name, old \o [i \in DOMAIN commits |-> SummaryEntry(commits[i])]))

\* The platforms of one repository, in the order of repo_data.items().
RECURSIVE SummaryOfRepo(_, _, _)
SummaryOfRepo(summary, repo_name, repo_data) ==
    IF repo_data = <<>> THEN summary
    ELSE SummaryOfRepo(AddSummary(summary, Head(repo_data).key, repo_name,
                                  Head(repo_data).value),
                       repo_name, Tail(repo_data))

RECURSIVE SummaryOfRepos(_, _)
SummaryOfRepos(summary, all_data) ==
    IF all_data = <<>> THEN summary
    ELSE SummaryOfRepos(SummaryOfRepo(summary, Head(all_data).key, Head(all_data).value),
                        Tail(all_data))

\* generate_summary_data(all_data): the repositories in the order of
\* all_data.items(), which is the order parse_data met them in.
GenerateSummaryData(all_data) == SummaryOfRepos(<<>>, all_data)

\* generate_dashboard_data(all_data)
GenerateDashboardData(all_data) ==
    LET items == SortedItems(all_data)
    IN  [repo_names |-> [i \in DOMAIN items |-> items[i].key],
         datasets |-> [i \in DOMAIN items |-> Datasets(items[i].value)],
         summary_detailed_data |-> GenerateSummaryData(all_data)]

\* json.dump(dashboard_data, f, indent=2) writes the document piece by piece;
\* the pieces of the model are the three members of the top-level object.
JsonChunks(doc) ==
    <<[key |-> "repo_names", value |-> doc.repo_names],
      [key |-> "datasets", value |-> doc.datasets],
      [key |-> "summary_detailed_data", value |-> doc.summary_detailed_data]>>

----------------------------------------------------------------------------
(* The inputs of the model *)

\* The platform directories data/<org>/<repo>/<platform> of the model: two
\* repositories of two organisations, two platforms each.
RepoDirs == {<<<<"o">>, <<"b">>>>, <<<<"p">>, <<"a">>>>}

Platforms == {"garnix", "github-actions-serial"}

PlatformDirs == {<<rd[1], rd[2], p>> : rd \in RepoDirs, p \in Platforms}

NumTime(ms) == [tag |-> "num", ms |-> ms]

NoTime == [tag |-> "absent", ms |-> 0]

StrTime == [tag |-> "str", ms |-> 0]

\* A *.json file whose body is a JSON object.
ObjectFile(stem, time, status, branch) ==
    [stem |-> stem,
     body |-> [kind |-> "object", time |-> time, status |-> status, branchName |-> branch]]

\* A *.json file whose body is no JSON object: kind "invalid" is no JSON at
\* all, kind "array" is JSON of another type.
OtherFile(stem, kind) ==
    [stem |-> stem,
     body |-> [kind |-> kind, time |-> NoTime, status |-> NoField, branchName |-> NoField]]

NoDir == [exists |-> FALSE, files |-> {}]

Dir(fs) == [exists |-> TRUE, files |-> fs]

\* The sets of at most n files of U with distinct names.
RECURSIVE FileSetsUpTo(_, _)
FileSetsUpTo(U, n) ==
    IF n = 0 THEN {{}}
    ELSE LET smaller == FileSetsUpTo(U, n - 1)
         IN  smaller \union
             UNION {{S \union {f} : f \in {g \in U : \A h \in S : h.stem # g.stem}} :
                      S \in smaller}

\* The sets of at most MaxFiles files of U with distinct names.
FileSets(U) == FileSetsUpTo(U, MaxFiles)

\* The files of the specification of the document: two well-formed files
\* whose name order ("10_..." before "2_...") is not their index order, and
\* one that is no JSON, between them in name order.
DocFiles ==
    {ObjectFile(<<"2", "_", "h", "1">>, NumTime(2 * MsPerMinute), "success", NoField),
     ObjectFile(<<"1", "0", "_", "h", "2">>, NumTime(4 * MsPerMinute), "timed_out", "dev"),
     OtherFile(<<"1", "_", "h", "1">>, "invalid")}

\* A platform directory of the specification of the document: absent, or
\* holding the file that is no JSON, the first well-formed file, or all three.
DocDirStates ==
    {NoDir} \union
    {Dir({f \in DocFiles : f.body.status \in S}) :
        S \in {{NoField}, {"success"}, {NoField, "success", "timed_out"}}}


\* The file names of the specification of the parser: indices 1, 1 (as
\* "01"), 10 and 2, a prefix that is no number, and a name without '_'.
ParseStems ==
    {<<"1", "_", "h", "1">>, <<"0", "1", "_", "h", "2">>, <<"1", "0", "_", "h", "1">>,
     <<"2", "_", "h", "2">>, <<"x", "_", "h", "1">>, <<"7">>}

\* The files of the specification of the parser: every name with every body.
ParseFilesUniverse ==
    UNION {{ObjectFile(s, NumTime(2 * MsPerMinute), "success", NoField),
            ObjectFile(s, NumTime(3 * MsPerMinute), "failure", "dev"),
            ObjectFile(s, NoTime, "timed_out", NoField),
            ObjectFile(s, NumTime(MsPerMinute), NoField, NoField),
            ObjectFile(s, StrTime, "success", NoField),
            OtherFile(s, "invalid"),
            OtherFile(s, "array")} : s \in ParseStems}

\* The platform directory the specifications of the parser and the loader fill.
TheDir == <<<<"o">>, <<"b">>, "garnix">>

NoOverrideFile ==
    [exists |-> FALSE, yamlLoads |-> FALSE, genuine_failures |-> <<>>, early_fail |-> <<>>]

\* An incorrect.yaml that is no YAML mapping: yaml.safe_load raises, or
\* data.get does.
BadYaml ==
    [exists |-> TRUE, yamlLoads |-> FALSE, genuine_failures |-> <<>>, early_fail |-> <<>>]

OverrideYaml(genuine, early) ==
    [exists |-> TRUE, yamlLoads |-> TRUE, genuine_failures |-> genuine, early_fail |-> early]

\* An entry of incorrect.yaml with its three keys.
Entry(repo, platform, commits) ==
    [wellFormed |-> TRUE, repo |-> repo, platform |-> platform, commits |-> commits]

\* An entry that lacks a key: entry['repo'] (or 'platform', or 'commits')
\* raises KeyError before anything of the entry is added.
BadEntry == [wellFormed |-> FALSE, repo |-> <<>>, platform |-> "", commits |-> <<>>]

EntriesOfTheDir ==
    {Entry(RepoKey(TheDir), TheDir[3], <<<<"h", "1">>>>),
     Entry(RepoKey(TheDir), TheDir[3], <<<<"h", "2">>>>)}

\* The sequences over S of length at most n.
SeqsUpTo(S, n) == UNION {[1..k -> S] : k \in 0..n}

----------------------------------------------------------------------------
(* The generator: main of generate_visualizations.py *)

NoDocument == <<>>

NoFile == [exists |-> FALSE, content |-> <<>>]

\* What every specification starts from, whatever the input files are: no
\* output yet, no process started.
InitProgram ==
    /\ outDir = FALSE
    /\ outFile = NoFile
    /\ pc = "start"
    /\ genuine_failures = {}
    /\ early_failures = {}
    /\ warned = FALSE
    /\ visited = {}
    /\ results = <<>>
    /\ skipped = {}
    /\ dashboard_data = NoDocument
    /\ run = 1
    /\ fileAtStart = NoFile
    /\ servePc = "idle"
    /\ serveDir = "."
    /\ servePort = 0
    /\ viz = [exists |-> FALSE, html |-> FALSE, data |-> FALSE]

serveVars == <<servePc, serveDir, servePort, viz>>

inputVars == <<files, overrideFile>>

\* parse_data, line 45: genuine_failures, early_failures = load_failure_categories()
LoadCategories ==
    /\ pc = "start"
    /\ LET r == LoadFailureCategories(overrideFile)
       IN  /\ genuine_failures' = r.genuine
           /\ early_failures' = r.early
           /\ warned' = r.warned
    /\ pc' = "parsing"
    /\ UNCHANGED <<inputVars, outDir, outFile, visited, results, skipped,
                   dashboard_data, run, fileAtStart, serveVars>>

ExistingDirs == {d \in PlatformDirs : files[d].exists}

\* The repository directories whose "for platform_dir" loop is under way.
ReposInProgress ==
    {<<d[1], d[2]>> : d \in {v \in visited :
        \E u \in ExistingDirs \ visited : u[1] = v[1] /\ u[2] = v[2]}}

\* The organisation directories whose "for repo_dir" loop is under way.
OrgsInProgress ==
    {d[1] : d \in {v \in visited : \E u \in ExistingDirs \ visited : u[1] = v[1]}}

\* Whether the three nested iterdir() loops can come to d next: iterdir()
\* yields the entries of a directory in any order, and an inner loop ends
\* before the outer one goes on.
CanVisit(d) ==
    /\ d \in ExistingDirs \ visited
    /\ ReposInProgress # {} => <<d[1], d[2]>> \in ReposInProgress
    /\ OrgsInProgress # {} => d[1] \in OrgsInProgress

\* The process after an exception nothing catches, or an interruption: it is
\* gone, and its memory with it. What it printed and wrote stays.
ProcessDies(how) ==
    /\ pc' = how
    /\ genuine_failures' = {}
    /\ early_failures' = {}
    /\ visited' = {}
    /\ results' = <<>>
    /\ dashboard_data' = NoDocument

\* parse_data, lines 57-112: one platform directory, its files in the order
\* of the sorted glob, then the sort of its records.
ParsePlatformDir(d) ==
    /\ pc = "parsing"
    /\ CanVisit(d)
    /\ LET r == ParseFiles(SortedGlob(files[d].files), RepoKey(d), d[3],
                           genuine_failures, early_failures, <<>>, {})
       IN  IF r.crashed
           THEN /\ ProcessDies("crashed")
                /\ skipped' = skipped \union {<<d, n>> : n \in r.skipped}
           ELSE /\ results' = AddPlatform(results, RepoKey(d), d[3], r.records)
                /\ skipped' = skipped \union {<<d, n>> : n \in r.skipped}
                /\ visited' = visited \union {d}
                /\ UNCHANGED <<pc, genuine_failures, early_failures, dashboard_data>>
    /\ UNCHANGED <<inputVars, outDir, outFile, warned, run, fileAtStart, serveVars>>

\* parse_data returns dict(results); main, line 227: output_dir.mkdir(exist_ok=True)
MakeOutputDir ==
    /\ pc = "parsing"
    /\ ExistingDirs \subseteq visited
    /\ outDir' = TRUE
    /\ pc' = "generate"
    /\ UNCHANGED <<inputVars, outFile, genuine_failures, early_failures, warned, visited,
                   results, skipped, dashboard_data, run, fileAtStart, serveVars>>

\* main, line 233: dashboard_data = generate_dashboard_data(all_data)
Generate ==
    /\ pc = "generate"
    /\ dashboard_data' = GenerateDashboardData(results)
    /\ pc' = "open"
    /\ UNCHANGED <<inputVars, outDir, outFile, genuine_failures, early_failures, warned,
                   visited, results, skipped, run, fileAtStart, serveVars>>

\* main, line 237: open(json_file, 'w') creates the file or truncates it.
OpenOutput ==
    /\ pc = "open"
    /\ outFile' = [exists |-> TRUE, content |-> <<>>]
    /\ pc' = "writing"
    /\ UNCHANGED <<inputVars, outDir, genuine_failures, early_failures, warned, visited,
                   results, skipped, dashboard_data, run, fileAtStart, serveVars>>

\* main, line 238: json.dump writes the next piece of the document.
WriteChunk ==
    /\ pc = "writing"
    /\ Len(outFile.content) < Len(JsonChunks(dashboard_data))
    /\ outFile' = [outFile EXCEPT !.content =
                      Append(@, JsonChunks(dashboard_data)[Len(@) + 1])]
    /\ UNCHANGED <<inputVars, outDir, pc, genuine_failures, early_failures, warned,
                   visited, results, skipped, dashboard_data, run, fileAtStart, serveVars>>

\* main, lines 238-247: the with block ends, the closing messages are printed.
CloseOutput ==
    /\ pc = "writing"
    /\ Len(outFile.content) = Len(JsonChunks(dashboard_data))
    /\ pc' = "done"
    /\ UNCHANGED <<inputVars, outDir, outFile, genuine_failures, early_failures, warned,
                   visited, results, skipped, dashboard_data, run, fileAtStart, serveVars>>

Ended == {"done", "crashed", "interrupted"}

\* The process is interrupted (a signal, Ctrl+C) wherever it is.
Interrupt ==
    /\ pc \notin Ended
    /\ ProcessDies("interrupted")
    /\ UNCHANGED <<inputVars, outDir, outFile, warned, skipped, run, fileAtStart, serveVars>>

\* main is run again on the same input files, after a run that completed.
RunAgain ==
    /\ pc = "done"
    /\ run < MaxRuns
    /\ servePc = "idle"
    /\ run' = run + 1
    /\ fileAtStart' = outFile
    /\ pc' = "start"
    /\ genuine_failures' = {}
    /\ early_failures' = {}
    /\ warned' = FALSE
    /\ visited' = {}
    /\ results' = <<>>
    /\ skipped' = {}
    /\ dashboard_data' = NoDocument
    /\ UNCHANGED <<inputVars, outDir, outFile, serveVars>>

NextGenerator ==
    \/ LoadCategories
    \/ \E d \in PlatformDirs : ParsePlatformDir(d)
    \/ MakeOutputDir
    \/ Generate
    \/ OpenOutput
    \/ WriteChunk
    \/ CloseOutput
    \/ Interrupt

----------------------------------------------------------------------------
(* The file server: main of serve.py *)

\* PORT = 8000
PORT == 8000

\* Path("public"), the directory main of the generator writes into.
OutputDirName == "public"

\* Path("visualizations"), the directory serve.py changes to.
VizDirName == "visualizations"

\* What visualizations/ can hold when serve.py looks: the generator never
\* writes there, so it is as the user left it.
VizStates ==
    {v \in [exists : BOOLEAN, html : BOOLEAN, data : BOOLEAN] :
        ~v.exists => (~v.html /\ ~v.data)}

\* serve.py, lines 15-31: the three checks, with os.chdir between the first
\* and the second. It is started from the generator's working directory once
\* the generator has ended.
ServeStart(v) ==
    /\ servePc = "idle"
    /\ pc \in Ended
    /\ viz' = v
    /\ IF ~v.exists
       THEN servePc' = "exit1" /\ serveDir' = serveDir
       ELSE /\ serveDir' = VizDirName
            /\ servePc' = IF v.html /\ v.data THEN "bind" ELSE "exit1"
    /\ UNCHANGED <<inputVars, outDir, outFile, pc, genuine_failures, early_failures,
                   warned, visited, results, skipped, dashboard_data, run, fileAtStart,
                   servePort>>

\* serve.py, lines 37-53: bind PORT; on "Address already in use" bind
\* PORT + 1, where a second OSError is caught by nothing.
ServeBind(busy, busyNext) ==
    /\ servePc = "bind"
    /\ IF ~busy THEN servePc' = "serving" /\ servePort' = PORT
       ELSE IF ~busyNext THEN servePc' = "serving" /\ servePort' = PORT + 1
       ELSE servePc' = "oserror" /\ servePort' = servePort
    /\ UNCHANGED <<inputVars, outDir, outFile, pc, genuine_failures, early_failures,
                   warned, visited, results, skipped, dashboard_data, run, fileAtStart,
                   serveDir, viz>>

\* Ctrl+C ends serve_forever.
ServeStop ==
    /\ servePc = "serving"
    /\ servePc' = "stopped"
    /\ UNCHANGED <<inputVars, outDir, outFile, pc, genuine_failures, early_failures,
                   warned, visited, results, skipped, dashboard_data, run, fileAtStart,
                   serveDir, servePort, viz>>

NextServe ==
    \/ \E v \in VizStates : ServeStart(v)
    \/ \E busy, busyNext \in BOOLEAN : ServeBind(busy, busyNext)
    \/ ServeStop

----------------------------------------------------------------------------
(* Specifications *)

\* The document: every combination of the platform directories, each absent
\* or holding files of DocFiles; incorrect.yaml absent, or naming the second
\* file of TheDir a genuine failure. main runs, and runs again.
Init ==
    /\ files \in [PlatformDirs -> DocDirStates]
    /\ overrideFile \in
         {NoOverrideFile,
          OverrideYaml(<<Entry(RepoKey(TheDir), TheDir[3], <<<<"h", "2">>>>)>>, <<>>)}
    /\ InitProgram

Next == NextGenerator \/ RunAgain

Spec == Init /\ [][Next]_vars

\* The parser: one platform directory holding any files of
\* ParseFilesUniverse; incorrect.yaml with each list empty or naming one hash.
InitParse ==
    /\ \E S \in FileSets(ParseFilesUniverse) :
          files = [d \in PlatformDirs |-> IF d = TheDir THEN Dir(S) ELSE NoDir]
    /\ overrideFile \in
         {OverrideYaml(g, e) : g, e \in SeqsUpTo({Entry(RepoKey(TheDir), TheDir[3],
                                                        <<<<"h", "1">>>>)}, 1)}
    /\ InitProgram

SpecParse == InitParse /\ [][NextGenerator]_vars

\* The loader: incorrect.yaml absent, no YAML mapping, or with any lists of
\* at most MaxEntries entries, well-formed or not.
InitLoad ==
    /\ \E ds \in DocDirStates :
          files = [d \in PlatformDirs |-> IF d = TheDir THEN ds ELSE NoDir]
    /\ overrideFile \in
         {NoOverrideFile, BadYaml} \union
         {OverrideYaml(g, e) :
            g, e \in SeqsUpTo(EntriesOfTheDir \union {BadEntry}, MaxEntries)}
    /\ InitProgram

SpecLoad == InitLoad /\ [][NextGenerator]_vars

\* The generator and then the server, in one working directory.
InitServe ==
    /\ files \in [PlatformDirs -> {NoDir, Dir(DocFiles)}]
    /\ overrideFile = NoOverrideFile
    /\ InitProgram

NextServed == NextGenerator \/ NextServe

SpecServe == InitServe /\ [][NextServed]_vars

----------------------------------------------------------------------------
(* What the properties are stated in *)

\* main has the document in hand.
HasDocument == pc \in {"open", "writing", "done"}

\* results[repo_key][platform], or the empty list.
RecordsFor(repo_key, platform) ==
    IF repo_key \in DictKeys(results) /\ platform \in DictKeys(DictGet(results, repo_key))
    THEN DictGet(DictGet(results, repo_key), platform)
    ELSE <<>>

GroupOf(d) == RecordsFor(RepoKey(d), d[3])

\* The series labelled platform in the datasets of repo_key, as a list (the
\* document may hold none, or several).
SeriesFor(repo_key, platform) ==
    LET doc == dashboard_data
        pos == {i \in DOMAIN doc.repo_names : doc.repo_names[i] = repo_key}
        IsPlatform(ds) == ds.label = platform
    IN  IF pos = {} THEN <<>>
        ELSE SelectSeq(doc.datasets[CHOOSE i \in pos : TRUE], IsPlatform)

\* summary_detailed_data[platform][repo_key], or the empty list.
SummaryFor(repo_key, platform) ==
    LET summary == dashboard_data.summary_detailed_data
    IN  IF platform \in DictKeys(summary) /\ repo_key \in DictKeys(DictGet(summary, platform))
        THEN DictGet(DictGet(summary, platform), repo_key)
        ELSE <<>>

RepoKeys == {RepoKey(d) : d \in PlatformDirs}

\* The part of a file name before the first '_' (the whole name without one).
PrefixOf(f) ==
    LET i == IndexOf(f.stem, "_", 1)
    IN  IF i = 0 THEN FileName(f) ELSE SubSeq(f.stem, 1, i - 1)

\* The part of a file name between the first '_' and the extension.
HashOf(f) == SubSeq(f.stem, IndexOf(f.stem, "_", 1) + 1, Len(f.stem))

\* The file is one parse_data is meant to take: a JSON object with a numeric
\* (or no) time, under a name with a numeric prefix.
Parses(f) ==
    /\ f.body.kind = "object"
    /\ f.body.time.tag # "str"
    /\ IntParses(PrefixOf(f))

\* The file a record was made from.
IsFileOf(f, rec) ==
    /\ IntParses(PrefixOf(f))
    /\ IntValue(PrefixOf(f)) = rec.commit_index
    /\ HashOf(f) = rec.commit_hash

----------------------------------------------------------------------------
(* C1: the corrected status *)

\* C1: every record's status follows the precedence genuine failure, early
\* failure, original timed_out, success, whatever else the file reported.
C1_StatusPrecedence ==
    \A d \in PlatformDirs : \A i \in DOMAIN GroupOf(d) : \A f \in files[d].files :
        LET rec == GroupOf(d)[i]
            key == <<RepoKey(d), d[3], rec.commit_hash>>
            inGenuine == key \in genuine_failures
            inEarly == key \in early_failures
            timedOut == f.body.status = "timed_out"
        IN  IsFileOf(f, rec) =>
              /\ inGenuine => rec.status = "failure"
              /\ (~inGenuine /\ inEarly) => rec.status = "early_fail"
              /\ (~inGenuine /\ ~inEarly /\ timedOut) => rec.status = "timed_out"
              /\ (~inGenuine /\ ~inEarly /\ ~timedOut) => rec.status = "success"

\* A file that reported timed_out, listed as a genuine and as an early
\* failure, has given a record with status failure.
C1_Witness ==
    \E d \in PlatformDirs : \E i \in DOMAIN GroupOf(d) : \E f \in files[d].files :
        LET rec == GroupOf(d)[i]
            key == <<RepoKey(d), d[3], rec.commit_hash>>
        IN  /\ IsFileOf(f, rec)
            /\ f.body.status = "timed_out"
            /\ key \in genuine_failures /\ key \in early_failures
            /\ rec.status = "failure"

----------------------------------------------------------------------------
(* C2: the order of a group *)

\* The lists of sequence indices the output holds: one per group of results
\* and, once the document is made, one per series and per summary list.
OutputIndexLists ==
    {[i \in DOMAIN GroupOf(d) |-> GroupOf(d)[i].commit_index] : d \in PlatformDirs}
    \union
    (IF ~HasDocument THEN {}
     ELSE UNION {
            {[i \in DOMAIN s.data |-> s.data[i].x] :
                s \in {SeriesFor(RepoKey(d), d[3])[k] :
                         k \in DOMAIN SeriesFor(RepoKey(d), d[3])}}
            \union
            {[i \in DOMAIN SummaryFor(RepoKey(d), d[3]) |->
                 SummaryFor(RepoKey(d), d[3])[i].commit_index]}
            : d \in PlatformDirs})

\* C2 as amended: the records of every group are ascending by sequence
\* index, equal indices allowed.
C2_AscendingByIndex ==
    \A s \in OutputIndexLists : \A i, j \in DOMAIN s : i < j => s[i] <= s[j]

\* C2 as stated: strictly ascending, no index twice in a group.
C2_StrictlyAscending ==
    \A s \in OutputIndexLists : \A i, j \in DOMAIN s : i < j => s[i] < s[j]

\* The document holds a series with the indices 2 and 10, whose files come
\* in the other order in the sorted glob.
C2_Witness ==
    /\ pc = "done"
    /\ \E d \in PlatformDirs :
          /\ Len(SeriesFor(RepoKey(d), d[3])) = 1
          /\ [i \in DOMAIN SeriesFor(RepoKey(d), d[3])[1].data |->
                 SeriesFor(RepoKey(d), d[3])[1].data[i].x] = <<2, 10>>

----------------------------------------------------------------------------
(* C3: files that do not parse *)

\* C3: no file makes parse_data abort.
C3_ParseNeverAborts == pc # "crashed"

----------------------------------------------------------------------------
(* C4: a malformed override file *)

HasBadEntry(entries) == \E i \in DOMAIN entries : ~entries[i].wellFormed

Malformed(file) ==
    /\ file.exists
    /\ \/ ~file.yamlLoads
       \/ HasBadEntry(file.genuine_failures)
       \/ HasBadEntry(file.early_fail)

\* C4: load_failure_categories has returned two empty sets with a warning
\* when incorrect.yaml is malformed, and without one when it is absent.
C4_MalformedGivesEmptySets ==
    pc = "parsing" =>
      /\ Malformed(overrideFile) =>
           (warned /\ genuine_failures = {} /\ early_failures = {})
      /\ ~overrideFile.exists =>
           (~warned /\ genuine_failures = {} /\ early_failures = {})

----------------------------------------------------------------------------
(* C5: two runs on the same input *)

\* C5: a run that completes after another has written the file the other
\* wrote, whatever order the directories were listed in.
C5_SameOutputTwice == (pc = "done" /\ run > 1) => outFile = fileAtStart

----------------------------------------------------------------------------
(* C6: no partial output *)

\* C6: while main runs, the output file is what it was when the run started
\* or the complete new document.
C6_NoPartialOutput ==
    pc \notin {"crashed", "interrupted"} =>
      \/ outFile = fileAtStart
      \/ /\ pc \in {"writing", "done"}
         /\ outFile = [exists |-> TRUE, content |-> JsonChunks(dashboard_data)]

----------------------------------------------------------------------------
(* C7: the summary *)

RECURSIVE SumOf(_)
SumOf(s) == IF s = <<>> THEN 0 ELSE Head(s) + SumOf(Tail(s))

\* The product of the counts of the repositories of S.
RECURSIVE ProductOf(_, _)
ProductOf(S, count) ==
    IF S = {} THEN 1
    ELSE LET r == CHOOSE x \in S : TRUE
         IN  count[r] * ProductOf(S \ {r}, count)

\* The mean over the repositories of S of sum[r] / count[r], as a fraction
\* <<numerator, denominator>>; every count is positive.
RECURSIVE MeanOfMeansNum(_, _, _, _)
MeanOfMeansNum(todo, S, sum, count) ==
    IF todo = {} THEN 0
    ELSE LET r == CHOOSE x \in todo : TRUE
         IN  sum[r] * ProductOf(S \ {r}, count) + MeanOfMeansNum(todo \ {r}, S, sum, count)

MeanOfMeans(S, sum, count) ==
    <<MeanOfMeansNum(S, S, sum, count), Cardinality(S) * ProductOf(S, count)>>

SameFraction(a, b) == a[1] * b[2] = b[1] * a[2]

\* The repositories with at least one record for the platform.
Contributing(platform) == {r \in RepoKeys : RecordsFor(r, platform) # <<>>}

\* The mean of the per-repository means of the platform, from the records.
MeanOfRecords(platform) ==
    LET S == Contributing(platform)
    IN  MeanOfMeans(S,
          [r \in S |-> SumOf([i \in DOMAIN RecordsFor(r, platform) |->
                                 RecordsFor(r, platform)[i].time_minutes])],
          [r \in S |-> Len(RecordsFor(r, platform))])

\* The same mean, from what the document lists for the platform.
MeanOfSummary(platform) ==
    LET by_repo == DictGet(dashboard_data.summary_detailed_data, platform)
        S == DictKeys(by_repo)
    IN  MeanOfMeans(S,
          [r \in S |-> SumOf([i \in DOMAIN DictGet(by_repo, r) |->
                                 DictGet(by_repo, r)[i].time_minutes])],
          [r \in S |-> Len(DictGet(by_repo, r))])

\* The key under which a summary would report a platform's average.
AverageKey == <<"a", "v", "e", "r", "a", "g", "e">>

\* C7 as stated: for every platform of the summary the document reports the
\* mean of the per-repository means.
C7_ReportsMeanOfMeans ==
    HasDocument =>
      \A p \in DictKeys(dashboard_data.summary_detailed_data) :
        LET by_repo == DictGet(dashboard_data.summary_detailed_data, p)
        IN  \E i \in DOMAIN by_repo :
               /\ by_repo[i].key = AverageKey
               /\ SameFraction(<<by_repo[i].value, 1>>, MeanOfRecords(p))

\* C7 as amended: the document reports no mean; for every platform with a
\* contributing repository it lists the records of each contributing
\* repository apart, none of them empty, and the mean of the per-repository
\* means taken from these lists is the one taken from the records.
C7_ListsPerRepository ==
    HasDocument =>
      \A p \in Platforms :
        LET summary == dashboard_data.summary_detailed_data
        IN  /\ p \in DictKeys(summary) <=> Contributing(p) # {}
            /\ p \in DictKeys(summary) =>
                 /\ DictKeys(DictGet(summary, p)) = Contributing(p)
                 /\ AverageKey \notin DictKeys(DictGet(summary, p))
                 /\ \A r \in Contributing(p) : SummaryFor(r, p) # <<>>
                 /\ SameFraction(MeanOfSummary(p), MeanOfRecords(p))

\* The sum of f over S.
RECURSIVE SumOver(_, _)
SumOver(S, f) ==
    IF S = {} THEN 0
    ELSE LET r == CHOOSE x \in S : TRUE
         IN  f[r] + SumOver(S \ {r}, f)

\* The mean over all records of the platform, as a fraction.
MeanOfAllRecords(platform) ==
    LET S == Contributing(platform)
    IN  <<SumOver(S, [r \in S |-> SumOf([i \in DOMAIN RecordsFor(r, platform) |->
                                            RecordsFor(r, platform)[i].time_minutes])]),
          SumOver(S, [r \in S |-> Len(RecordsFor(r, platform))])>>

\* The document is written for a platform with two records in one repository
\* and one in another, where weighting by repository and weighting by record
\* give different means.
C7_Witness ==
    /\ pc = "done"
    /\ \E p \in Platforms :
          /\ {Len(RecordsFor(r, p)) : r \in Contributing(p)} = {1, 2}
          /\ ~SameFraction(MeanOfSummary(p), MeanOfAllRecords(p))

----------------------------------------------------------------------------
(* C8: one record per parsed file, held twice by the document *)

\* C8: a directory that has been gone through has one record per file that
\* parses, with the file's index, hash and time, and none for another file;
\* the document holds these records as the platform's series of the
\* repository and as summary_detailed_data[platform][repository], with the
\* same count, order, index, time and status.
C8_RecordsPerParsedFile ==
    /\ \A d \in visited :
         LET recs == GroupOf(d)
             good == {f \in files[d].files : Parses(f)}
         IN  /\ Len(recs) = Cardinality(good)
             /\ \A f \in good : \E i \in DOMAIN recs :
                   /\ IsFileOf(f, recs[i])
                   /\ recs[i].time_minutes * MsPerMinute = f.body.time.ms
    /\ HasDocument =>
         \A d \in PlatformDirs :
           LET recs == GroupOf(d)
               series == SeriesFor(RepoKey(d), d[3])
               entries == SummaryFor(RepoKey(d), d[3])
           IN  /\ Len(entries) = Len(recs)
               /\ \A i \in DOMAIN recs :
                     /\ entries[i].commit_index = recs[i].commit_index
                     /\ entries[i].time_minutes = recs[i].time_minutes
                     /\ entries[i].status = recs[i].status
               /\ Len(series) = IF recs = <<>> THEN 0 ELSE 1
               /\ recs # <<>> =>
                     /\ Len(series[1].data) = Len(recs)
                     /\ \A i \in DOMAIN recs :
                           /\ series[1].data[i].x = recs[i].commit_index
                           /\ series[1].data[i].y = recs[i].time_minutes
                           /\ series[1].data[i].commit_hash = recs[i].commit_hash
                           /\ series[1].data[i].status = recs[i].status

\* The document is written for a directory of three files of which one was
\* skipped and two gave records.
C8_Witness ==
    /\ pc = "done"
    /\ \E d \in visited :
          /\ Cardinality(files[d].files) = 3
          /\ Len(GroupOf(d)) = 2
          /\ \E n \in {FileName(f) : f \in files[d].files} : <<d, n>> \in skipped
          /\ Len(SummaryFor(RepoKey(d), d[3])) = 2

----------------------------------------------------------------------------
(* C9: the server and the generator's output *)

\* C9: started after a run of main that completed, in the same working
\* directory, serve.py serves the directory main wrote into.
C9_ServesGeneratorOutput ==
    (pc = "done" /\ servePc \in {"serving", "stopped"}) => serveDir = OutputDirName

----------------------------------------------------------------------------
(* C10: the shape of the document *)

\* C10: repo_names is strictly ascending and names the repositories of the
\* results; datasets is as long; datasets[i] has one series for each platform
\* of repo_names[i] with records and none for another; the summary has no
\* list for a platform and repository without records.
C10_DocumentShape ==
    HasDocument =>
      LET doc == dashboard_data
      IN  /\ \A i, j \in DOMAIN doc.repo_names :
                i < j => LexLess(doc.repo_names[i], doc.repo_names[j])
          /\ {doc.repo_names[i] : i \in DOMAIN doc.repo_names} = DictKeys(results)
          /\ Len(doc.datasets) = Len(doc.repo_names)
          /\ \A i \in DOMAIN doc.datasets :
                /\ \A k \in DOMAIN doc.datasets[i] : doc.datasets[i][k].label \in Platforms
                /\ \A p \in Platforms :
                      Cardinality({k \in DOMAIN doc.datasets[i] :
                                      doc.datasets[i][k].label = p})
                        = IF RecordsFor(doc.repo_names[i], p) # <<>> THEN 1 ELSE 0
          /\ \A p \in DictKeys(doc.summary_detailed_data) :
                \A r \in DictKeys(DictGet(doc.summary_detailed_data, p)) :
                   /\ RecordsFor(r, p) # <<>>
                   /\ DictGet(DictGet(doc.summary_detailed_data, p), r) # <<>>

\* The document is made from results that met the repositories in the other
\* order, one of them with a platform without records.
C10_Witness ==
    /\ pc = "done"
    /\ Len(dashboard_data.repo_names) = 2
    /\ results[1].key = dashboard_data.repo_names[2]
    /\ \E i \in DOMAIN results : \E k \in DOMAIN results[i].value :
          results[i].value[k].value = <<>>
    /\ \E i \in DOMAIN dashboard_data.datasets : dashboard_data.datasets[i] = <<>>

====
